---- MODULE Spec2Model ----
(***************************************************************************)
(* Event tracker (src/server.js): a flat-file event store with manual CRUD *)
(* handlers and the scan pipeline performScan, which fans out five search  *)
(* calls, issues one extraction call, validates and merges the extracted   *)
(* candidates into the store and updates the scan metadata, guarded by the *)
(* process-wide flag scanInProgress.                                       *)
(*                                                                         *)
(* Every await of performScan is a suspension point: the code between two  *)
(* awaits is one action.  The two awaits of one search (fetch, res.json)   *)
(* touch no shared state in between and are settled by one action; so are  *)
(* the two awaits of the extraction call.                                  *)
(*                                                                         *)
(* Strings are sequences of one-character tokens, so that toLowerCase and  *)
(* trim are computed, not assumed.  A JavaScript value of a record field   *)
(* is [t, s]: t is "undef" (field absent), "num" (a non-zero number) or    *)
(* "str" (s is the string).  Of an event id, name, date, type, mode and   *)
(* reg are kept; timestamps (today, lastScan, addedAt) and the aggregated  *)
(* search text are left out.                                               *)
(*                                                                         *)
(* Specifications: Spec (CRUD handlers and performScan called with or      *)
(* without a sink that may throw), SpecHist and SpecSeen (CRUD and the     *)
(* cron job's scans, with a history kept), SpecRoute and SpecRouteFair     *)
(* (GET /api/scan and the cron job), SpecCoerce and SpecMerge (the merge   *)
(* as a function of a store and an extraction response drawn at the        *)
(* start).                                                                 *)
(***************************************************************************)
EXTENDS Integers, Sequences, FiniteSets, TLC

\* ---- bounds of the model ----
MaxStore == 2      \* events the store may hold
MaxIdVal == 2      \* largest id value explored
MaxHistId == 3     \* largest id value explored once an event was deleted
MaxCands == 2      \* length of the array returned by the extraction call
MaxScans == 1      \* completed scan runs explored (totalScans)

\* ---- program constants ----
NumQueries == 5

\* Invocations of performScan that may be pending at once.  The numbers only
\* name them: a new invocation takes the lowest free one.
Runs == {1, 2}

Undef == [t |-> "undef", s |-> <<>>]
Num == [t |-> "num", s |-> <<>>]
Str(s) == [t |-> "str", s |-> s]

Names == {<<"A">>, <<"a", " ">>, <<"b">>}
Dates == {<<"1">>}

VARIABLES
    hasApiKey,        \* ANTHROPIC_API_KEY is non-empty
    scanInProgress,   \* the re-entry flag
    eventsFile,       \* content of data/events.json: a sequence of events
    metaFile,         \* content of data/meta.json
    run,              \* per invocation of performScan: where it stands
    deletedIds        \* history, kept by SpecHist only: the ids deleted so far

vars == <<hasApiKey, scanInProgress, eventsFile, metaFile, run, deletedIds>>

\* The largest id explored.  Where the deleted ids are recorded, one more id
\* is explored once an event was deleted, so that events are inserted
\* into a store whose ids lie above a deleted one.
IdCap == IF deletedIds = {} THEN MaxIdVal ELSE MaxHistId

\* ---- data helpers ----
readEvents == eventsFile

readMeta == metaFile

Max(a, b) == IF a >= b THEN a ELSE b

RECURSIVE maxIdFrom(_, _, _)
maxIdFrom(events, i, m) ==
    IF i > Len(events) THEN m
    ELSE maxIdFrom(events, i + 1, Max(m, events[i].id))

\* the ids below the lowest id no event has, in the place of the largest id:
\* a new event then gets the lowest free id
RECURSIVE belowGapFrom(_, _)
belowGapFrom(events, n) ==
    IF \E i \in DOMAIN events : events[i].id = n + 1
    THEN belowGapFrom(events, n + 1)
    ELSE n

maxIdBelowGap(events) == belowGapFrom(events, 0)

\* events.reduce((m, e) => Math.max(m, e.id || 0), 0)
maxId(events) == maxIdFrom(events, 1, 0)

\* ---- string functions ----
lowerChar(c) == IF c = "A" THEN "a" ELSE c

toLowerCase(s) == [i \in DOMAIN s |-> lowerChar(s[i])]

RECURSIVE trimStart(_)
trimStart(s) ==
    IF s # <<>> /\ Head(s) = " " THEN trimStart(Tail(s)) ELSE s

RECURSIVE trimEnd(_)
trimEnd(s) ==
    IF s # <<>> /\ s[Len(s)] = " " THEN trimEnd(SubSeq(s, 1, Len(s) - 1)) ELSE s

trim(s) == trimEnd(trimStart(s))

\* JavaScript truthiness of a field value
truthy(v) == v.t = "num" \/ (v.t = "str" /\ v.s # <<>>)

\* `${v}` of a field value
template(v) ==
    IF v.t = "undef" THEN <<"u", "n", "d", "e", "f", "i", "n", "e", "d">>
    ELSE IF v.t = "num" THEN <<"7">>
    ELSE v.s

\* ---- the progress sink ----
\* the messages performScan sends, by the text they start with
ErrMessages == {"HTTP", "Search error", "Parse error"}

Messages ==
    {"ANTHROPIC_API_KEY is not set", "Starting", "Date", "Searching",
     "Results", "Structuring", "Extracted", "Done"} \cup ErrMessages

\* A sink is a callback that may throw: the messages it throws on, during one
\* synchronous stretch of performScan, are an input of that stretch.
Rejects(sent) == {{}} \cup {{m} : m \in sent}

NoMessage == [type |-> "", msg |-> ""]

\* touched records that a manual change of the store was made while the run
\* awaited an external call, where a specification keeps that history;
\* res is the SSE response of the request that made the invocation ("none"
\* when it was not made by GET /api/scan) and stream the lines written to it;
\* cands is the extraction response the invocation awaits, where a
\* specification fixes it beforehand.
IdleRun ==
    [pc |-> "idle", emitter |-> FALSE, qi |-> 0, sink |-> NoMessage,
     calls |-> 0, writes |-> 0, outcome |-> "none",
     parsed |-> "none", thrownBy |-> "none",
     res |-> "none", stream |-> <<>>, cands |-> <<>>, touched |-> FALSE]

\* The state one synchronous stretch of performScan works on: the shared
\* state, the invocation's own state r, the messages its sink throws on, and
\* whether an exception is in flight.
Frame(r, rejects) ==
    [scanInProgress |-> scanInProgress, eventsFile |-> eventsFile,
     metaFile |-> metaFile, r |-> run[r], rejects |-> rejects, threw |-> FALSE]

\* emitter?.(message): r.sink is the last message the sink took; the sink of
\* GET /api/scan writes the message to the response
emit(f, type, msg) ==
    IF f.threw \/ ~f.r.emitter THEN f
    ELSE IF msg \in f.rejects
         THEN [f EXCEPT !.threw = TRUE, !.r.thrownBy = "emitter"]
         ELSE [f EXCEPT !.r.sink = [type |-> type, msg |-> msg],
                        !.r.stream = IF f.r.res = "open"
                                     THEN Append(@, [type |-> type, msg |-> msg])
                                     ELSE @]

\* const log = (msg, type = '') => { console.log(...); emitter?.(`${type}:${msg}`) }
log(f, msg, type) == emit(f, type, msg)

\* await fetch(...): the request leaves and the invocation is suspended
fetch(f, pc, qi) ==
    IF f.threw THEN f
    ELSE [f EXCEPT !.r.calls = @ + 1, !.r.pc = pc, !.r.qi = qi]

\* an exception that leaves performScan rejects its promise
settle(f) ==
    IF f.threw THEN [f EXCEPT !.r.pc = "settled", !.r.outcome = "threw"] ELSE f

\* the head of one iteration of the search loop, up to its await
searchQuery(f, q) == fetch(log(f, "Searching", ""), "search", q)

\* the code after the search loop, up to the await of the extraction call
structure(f) == fetch(log(f, "Structuring", "info"), "extract", f.r.qi)

\* ---- validation, deduplication and merge ----
\* `${(e.name || '').toLowerCase().trim()}|${e.date}`
eventKey(e) ==
    trim(toLowerCase(IF truthy(e.name) THEN e.name.s ELSE <<>>))
        \o <<"|">> \o template(e.date)

\* (e.name || '').toLowerCase() of a name that is a number is a TypeError
eventKeyThrows(e) == e.name.t = "num"

\* `${ev.name.toLowerCase().trim()}|${ev.date}`
candKey(ev) == trim(toLowerCase(ev.name.s)) \o <<"|">> \o template(ev.date)

VALID_TYPES == {"hackathon", "meetup", "workshop", "conference"}

VALID_MODES == {"In-Person", "Online", "Hybrid"}

VALID_REGS == {"open", "limited", "closed", "free"}

\* a field of the pushed record copied from the candidate as it is
coerceNot(valid, v, default) == v

\* VALID.includes(v) ? v : default
coerce(valid, v, default) ==
    IF v.t = "str" /\ Len(v.s) = 1 /\ v.s[1] \in valid THEN v
    ELSE Str(<<default>>)

\* lines 239-254: the record pushed for a candidate
newRecord(id, ev) ==
    [id |-> id, name |-> ev.name, date |-> ev.date,
     type |-> coerce(VALID_TYPES, ev.type, "meetup"),
     mode |-> coerce(VALID_MODES, ev.mode, "In-Person"),
     reg |-> coerce(VALID_REGS, ev.reg, "open")]

\* the loop without its existingKeys.has(key) test
mergeOneNoDedup(m, ev) ==
    IF m.threw THEN m
    ELSE IF ev.kind = "null" THEN [m EXCEPT !.threw = TRUE]
    ELSE IF ~truthy(ev.name) \/ ~truthy(ev.date) THEN m
    ELSE IF ev.name.t # "str" THEN [m EXCEPT !.threw = TRUE]
    ELSE [m EXCEPT
            !.events = Append(@, newRecord(m.idCounter, ev)),
            !.idCounter = @ + 1,
            !.existingKeys = @ \cup {candKey(ev)},
            !.added = @ + 1]

\* the loop overwriting the event a candidate collides with
mergeOneUpsert(m, ev) ==
    IF m.threw THEN m
    ELSE IF ev.kind = "null" THEN [m EXCEPT !.threw = TRUE]
    ELSE IF ~truthy(ev.name) \/ ~truthy(ev.date) THEN m
    ELSE IF ev.name.t # "str" THEN [m EXCEPT !.threw = TRUE]
    ELSE IF candKey(ev) \in m.existingKeys
    THEN [m EXCEPT !.events =
            [i \in DOMAIN m.events |->
                IF eventKey(m.events[i]) = candKey(ev)
                THEN [m.events[i] EXCEPT !.name = ev.name]
                ELSE m.events[i]]]
    ELSE [m EXCEPT
            !.events = Append(@, newRecord(m.idCounter, ev)),
            !.idCounter = @ + 1,
            !.existingKeys = @ \cup {candKey(ev)},
            !.added = @ + 1]

\* the loop without its existingKeys.add(key)
mergeOneKeyNotAdded(m, ev) ==
    IF m.threw THEN m
    ELSE IF ev.kind = "null" THEN [m EXCEPT !.threw = TRUE]
    ELSE IF ~truthy(ev.name) \/ ~truthy(ev.date) THEN m
    ELSE IF ev.name.t # "str" THEN [m EXCEPT !.threw = TRUE]
    ELSE IF candKey(ev) \in m.existingKeys THEN m
    ELSE [m EXCEPT
            !.events = Append(@, newRecord(m.idCounter, ev)),
            !.idCounter = @ + 1,
            !.added = @ + 1]

\* one iteration of for (const ev of newEvents)
mergeOne(m, ev) ==
    IF m.threw THEN m
    ELSE IF ev.kind = "null" THEN [m EXCEPT !.threw = TRUE]
    ELSE IF ~truthy(ev.name) \/ ~truthy(ev.date) THEN m
    ELSE IF ev.name.t # "str" THEN [m EXCEPT !.threw = TRUE]
    ELSE IF candKey(ev) \in m.existingKeys THEN m
    ELSE [m EXCEPT
            !.events = Append(@, newRecord(m.idCounter, ev)),
            !.idCounter = @ + 1,
            !.existingKeys = @ \cup {candKey(ev)},
            !.added = @ + 1]

RECURSIVE mergeFrom(_, _, _)
mergeFrom(m, newEvents, i) ==
    IF i > Len(newEvents) THEN m
    ELSE mergeFrom(mergeOne(m, newEvents[i]), newEvents, i + 1)

\* the merge on an empty list instead of the store it read
mergeForgetful(events, newEvents) ==
    mergeFrom([events |-> <<>>, existingKeys |-> {}, idCounter |-> 1,
               added |-> 0, threw |-> FALSE],
              newEvents, 1)

\* lines 225-257: read the store, build the key set, merge the candidates
merge(events, newEvents) ==
    IF \E i \in DOMAIN events : eventKeyThrows(events[i])
    THEN [events |-> events, existingKeys |-> {}, idCounter |-> 0,
          added |-> 0, threw |-> TRUE]
    ELSE mergeFrom([events |-> events,
                    existingKeys |-> {eventKey(events[i]) : i \in DOMAIN events},
                    idCounter |-> maxId(events) + 1,
                    added |-> 0, threw |-> FALSE],
                   newEvents, 1)

\* lines 259-265: persist the store, then update and persist the metadata
persist(f, m) ==
    [f EXCEPT
        !.eventsFile = m.events,
        !.metaFile = [totalScans |-> f.metaFile.totalScans + 1,
                      lastAdded |-> m.added],
        !.r.writes = @ + 2]

\* lines 223-268: everything after the extraction response was parsed
mergeStage(f, newEvents) ==
    LET f1 == log(f, "Extracted", "ok")
        m == merge(f1.eventsFile, newEvents)
    IN  IF f1.threw THEN f1
        ELSE IF m.threw THEN [f1 EXCEPT !.threw = TRUE, !.r.thrownBy = "merge"]
        ELSE LET f2 == log(persist(f1, m), "Done", "ok")
             IN  IF f2.threw THEN f2
                 ELSE [f2 EXCEPT !.scanInProgress = FALSE,
                                 !.r.pc = "settled", !.r.outcome = "done"]

\* ---- inputs ----
\* an element of the array the extraction call returned
Cand(kind, name, date) ==
    [kind |-> kind, name |-> name, date |-> date,
     type |-> Undef, mode |-> Undef, reg |-> Undef]

\* the candidates tried name no type, mode or registration status
Candidates ==
    {Cand("null", Undef, Undef),
     Cand("obj", Undef, Str(<<"1">>)),
     Cand("obj", Num, Str(<<"1">>))} \cup
    {Cand("obj", Str(n), Str(d)) : n \in Names, d \in Dates}

RECURSIVE SeqsUpTo(_, _)
SeqsUpTo(S, n) ==
    IF n = 0 THEN {<<>>}
    ELSE LET shorter == SeqsUpTo(S, n - 1)
         IN  shorter \cup {Append(q, x) : q \in shorter, x \in S}

\* what the extraction call can come back with
ExtractResponses ==
    {[kind |-> "fail", cands |-> <<>>], [kind |-> "nonarray", cands |-> <<>>]} \cup
    {[kind |-> "array", cands |-> c] : c \in SeqsUpTo(Candidates, MaxCands)}

\* The messages a sink is made to throw on, per stretch.  Whether the sink
\* throws on "Extracted" is tried with the responses that carry no candidate:
\* the candidates play no part before that message.
StartRejects == Rejects({"ANTHROPIC_API_KEY is not set", "Starting", "Searching"})

SearchRejects == Rejects({"Results", "Search error", "Structuring"})

ExtractRejects(resp) ==
    IF resp.kind = "fail" THEN Rejects({"Parse error"})
    ELSE IF resp.cands = <<>> THEN Rejects({"Extracted", "Done"})
    ELSE Rejects({"Done"})

ExtractInputs ==
    UNION {{[resp |-> resp, rejects |-> rejects] : rejects \in ExtractRejects(resp)} :
            resp \in ExtractResponses}

SearchResponses == {"ok", "http", "throw"}

\* request bodies of POST and PUT /api/events
Bodies ==
    {[hasId |-> h, id |-> IF h THEN 1 ELSE 0, name |-> n, date |-> d,
      type |-> Str(<<"meetup">>), mode |-> Str(<<"In-Person">>),
      reg |-> Str(<<"open">>)] :
        h \in BOOLEAN,
        n \in {Undef} \cup {Str(x) : x \in Names},
        d \in {Undef} \cup {Str(x) : x \in Dates}}

\* PUT ignores the id of its body: the bodies tried all carry one.  With one
\* date in Dates a body's date changes nothing, and is left out.
PutBodies == {b \in Bodies : b.hasId /\ b.date.t = "undef"}

\* POST stores whatever body it gets, with or without a name: the bodies
\* tried all carry a date, and those without a name carry no id.
PostBodies == {b \in Bodies : truthy(b.date) /\ (truthy(b.name) \/ ~b.hasId)}

\* the bodies of POST tried where the ids are followed: one name, with and
\* without an id
HistBodies == {b \in PostBodies : b.name = Str(<<"A">>)}

\* ---- state ----
TypeOK ==
    /\ hasApiKey \in BOOLEAN
    /\ scanInProgress \in BOOLEAN
    /\ Len(eventsFile) <= MaxStore
    /\ metaFile.totalScans \in 0..MaxScans
    /\ \A r \in Runs : run[r].pc \in {"idle", "search", "extract", "settled", "ended"}

Init ==
    /\ hasApiKey \in BOOLEAN
    /\ scanInProgress = FALSE
    /\ eventsFile = <<>>
    /\ metaFile = [totalScans |-> 0, lastAdded |-> 0 - 1]
    /\ run = [r \in Runs |-> IdleRun]
    /\ deletedIds = {}

\* A settled promise's continuation runs before any other callback.  A
\* response that has ended takes part in nothing: what follows it is taken
\* once it is closed.
Quiescent == \A r \in Runs : run[r].pc \notin {"settled", "ended"}

Commit(r, f) ==
    /\ scanInProgress' = f.scanInProgress
    /\ eventsFile' = f.eventsFile
    /\ metaFile' = f.metaFile
    /\ run' = [run EXCEPT ![r] = f.r]
    /\ UNCHANGED deletedIds

\* ---- manual CRUD ----
\* app.post('/api/events')
postEvent(events, body) ==
    Append(events,
           [id |-> IF body.hasId THEN body.id ELSE maxId(events) + 1,
            name |-> body.name, date |-> body.date,
            type |-> body.type, mode |-> body.mode, reg |-> body.reg])

ManualAdd(body) ==
    /\ Quiescent
    /\ Len(eventsFile) < MaxStore
    /\ maxId(eventsFile) < IdCap
    /\ eventsFile' = postEvent(readEvents, body)
    /\ UNCHANGED <<hasApiKey, scanInProgress, metaFile, run, deletedIds>>

\* events.findIndex(e => e.id === id); 0 when there is none
findIndex(events, id) ==
    IF \E i \in DOMAIN events : events[i].id = id
    THEN CHOOSE i \in DOMAIN events :
            /\ events[i].id = id
            /\ \A j \in DOMAIN events : events[j].id = id => i <= j
    ELSE 0

\* a field of { ...events[idx], ...req.body }
spread(old, new) == IF new.t = "undef" THEN old ELSE new

\* app.put('/api/events/:id')
putEvent(events, id, body) ==
    LET idx == findIndex(events, id)
    IN  IF idx = 0 THEN events
        ELSE [events EXCEPT ![idx] =
                [id |-> events[idx].id,
                 name |-> spread(events[idx].name, body.name),
                 date |-> spread(events[idx].date, body.date),
                 type |-> spread(events[idx].type, body.type),
                 mode |-> spread(events[idx].mode, body.mode),
                 reg |-> spread(events[idx].reg, body.reg)]]

ManualUpdate(id, body) ==
    /\ Quiescent
    /\ eventsFile' = putEvent(readEvents, id, body)
    /\ UNCHANGED <<hasApiKey, scanInProgress, metaFile, run, deletedIds>>

\* events.filter(e => e.id !== id)
deleteEvent(events, id) == SelectSeq(events, LAMBDA e : e.id # id)

\* app.delete('/api/events/:id')
ManualDelete(id) ==
    /\ Quiescent
    /\ eventsFile' = deleteEvent(readEvents, id)
    /\ UNCHANGED <<hasApiKey, scanInProgress, metaFile, run, deletedIds>>

\* the same handler, with the history of deleted ids recorded
ManualDeleteHist(id) ==
    /\ Quiescent
    /\ eventsFile' = deleteEvent(readEvents, id)
    /\ deletedIds' = IF eventsFile' # eventsFile THEN deletedIds \cup {id}
                     ELSE deletedIds
    /\ UNCHANGED <<hasApiKey, scanInProgress, metaFile, run>>

\* ---- performScan ----
\* performScan without its first line
rejectedNever(flag) == FALSE

\* if (scanInProgress) return
rejected(flag) == flag

\* performScan setting its flag before it looks for the key
startScanFlagFirst(f) ==
    IF rejected(f.scanInProgress)
    THEN [f EXCEPT !.r.pc = "settled", !.r.outcome = "rejected"]
    ELSE IF ~hasApiKey
    THEN LET f1 == emit([f EXCEPT !.scanInProgress = TRUE],
                        "error", "ANTHROPIC_API_KEY is not set")
         IN  IF f1.threw THEN f1
             ELSE [f1 EXCEPT !.r.pc = "settled", !.r.outcome = "nokey"]
    ELSE LET f1 == [f EXCEPT !.scanInProgress = TRUE]
             f2 == log(f1, "Starting", "info")
             f3 == log(f2, "Date", "info")
         IN  searchQuery(f3, 1)

\* lines 115-143: from the call to the first await
startScan(f) ==
    IF rejected(f.scanInProgress)
    THEN [f EXCEPT !.r.pc = "settled", !.r.outcome = "rejected"]
    ELSE IF ~hasApiKey
    THEN LET f1 == emit(f, "error", "ANTHROPIC_API_KEY is not set")
         IN  IF f1.threw THEN f1
             ELSE [f1 EXCEPT !.r.pc = "settled", !.r.outcome = "nokey"]
    ELSE LET f1 == [f EXCEPT !.scanInProgress = TRUE]
             f2 == log(f1, "Starting", "info")
             f3 == log(f2, "Date", "info")
         IN  searchQuery(f3, 1)

StartScan(r, emitter, rejects) ==
    /\ Quiescent
    /\ run[r].pc = "idle"
    /\ \A q \in Runs : q < r => run[q].pc # "idle"
    /\ emitter \/ rejects = {}
    /\ \E f \in {settle(startScan([Frame(r, rejects) EXCEPT !.r.emitter = emitter]))} :
            Commit(r, f)
    /\ UNCHANGED hasApiKey

\* lines 144-169: the try block of one search and its catch
searchSettled(f, resp) ==
    LET body ==
            IF resp = "throw" THEN [f EXCEPT !.threw = TRUE]
            ELSE IF resp = "http" THEN log(f, "HTTP", "err")
            ELSE log(f, "Results", "ok")
    IN  IF body.threw
        THEN log([body EXCEPT !.threw = FALSE, !.r.thrownBy = "none"],
                 "Search error", "err")
        ELSE body

\* the loop goes on to the next query, or ends
afterSearch(f) ==
    IF f.r.qi < NumQueries THEN searchQuery(f, f.r.qi + 1) ELSE structure(f)

SearchSettle(r, resp, rejects) ==
    /\ Quiescent
    /\ run[r].pc = "search"
    /\ run[r].emitter \/ rejects = {}
    /\ \E f \in {settle(afterSearch(searchSettled(Frame(r, rejects), resp)))} :
            Commit(r, f)
    /\ UNCHANGED hasApiKey

\* lines 194-268: the extraction response arrives
extractSettled(f, resp) ==
    LET f0 == [f EXCEPT !.r.parsed = resp.kind]
    IN  IF resp.kind = "fail"
        THEN LET f1 == log(f0, "Parse error", "err")
             IN  IF f1.threw THEN f1
                 ELSE [f1 EXCEPT !.scanInProgress = FALSE,
                                 !.r.pc = "settled", !.r.outcome = "parsefail"]
        ELSE mergeStage(f0, resp.cands)

ExtractSettle(r, resp, rejects) ==
    /\ Quiescent
    /\ run[r].pc = "extract"
    /\ run[r].emitter \/ rejects = {}
    /\ \E f \in {settle(extractSettled(Frame(r, rejects), resp))} :
           /\ Len(f.eventsFile) <= MaxStore
           /\ maxId(f.eventsFile) <= IdCap
           /\ f.metaFile.totalScans <= MaxScans
           /\ Commit(r, f)
    /\ UNCHANGED hasApiKey

\* The caller's continuation: the invocation is over.  A caller that passes
\* a sink is GET /api/scan, whose .catch takes an exception of performScan.
Finish(r) ==
    /\ run[r].pc = "settled"
    /\ run[r].res = "none"
    /\ run[r].outcome = "threw" => run[r].emitter
    /\ run' = [run EXCEPT ![r] = IdleRun]
    /\ UNCHANGED <<hasApiKey, scanInProgress, eventsFile, metaFile, deletedIds>>

\* The cron callback drops the promise of performScan(): when it is rejected
\* nothing handles it and Node ends the process.  The state is the one the
\* server has when it is started again: the files as they were, the flag and
\* every invocation as at construction.
Crash(r) ==
    /\ run[r].pc = "settled"
    /\ run[r].res = "none"
    /\ run[r].outcome = "threw" /\ ~run[r].emitter
    /\ run' = [q \in Runs |-> IdleRun]
    /\ scanInProgress' = FALSE
    /\ UNCHANGED <<hasApiKey, eventsFile, metaFile, deletedIds>>

\* the steps of the invocations of performScan
Scan ==
    \E r \in Runs :
        \/ /\ run[r].pc = "idle"
           /\ \E emitter \in BOOLEAN, rejects \in StartRejects :
                StartScan(r, emitter, rejects)
        \/ /\ run[r].pc = "search"
           /\ \E resp \in SearchResponses, rejects \in SearchRejects :
                SearchSettle(r, resp, rejects)
        \/ /\ run[r].pc = "extract"
           /\ \E input \in ExtractInputs :
                ExtractSettle(r, input.resp, input.rejects)
        \/ Finish(r)
        \/ Crash(r)

Next ==
    \/ \E body \in PostBodies : ManualAdd(body)
    \/ \E id \in 1..MaxIdVal, body \in PutBodies : ManualUpdate(id, body)
    \/ \E id \in 1..MaxIdVal : ManualDelete(id)
    \/ Scan

Spec == Init /\ [][Next]_vars

\* the steps of the invocations of performScan by the daily cron job, which
\* passes no emitter
CronScan ==
    \E r \in Runs :
        \/ /\ run[r].pc = "idle"
           /\ StartScan(r, FALSE, {})
        \/ /\ run[r].pc = "search"
           /\ \E resp \in SearchResponses : SearchSettle(r, resp, {})
        \/ /\ run[r].pc = "extract"
           /\ \E resp \in ExtractResponses : ExtractSettle(r, resp, {})
        \/ Finish(r)
        \/ Crash(r)

\* add, delete and scan, with the deleted ids recorded
NextHist ==
    \/ \E body \in HistBodies : ManualAdd(body)
    \/ \E id \in 1..MaxHistId : ManualDeleteHist(id)
    \/ CronScan

SpecHist == Init /\ [][NextHist]_vars

\* ---- manual changes under a running scan ----
\* the runs that await an external call while the store is changed to events
touch(events) ==
    [r \in Runs |->
        IF run[r].pc \in {"search", "extract"} /\ events # eventsFile
        THEN [run[r] EXCEPT !.touched = TRUE]
        ELSE run[r]]

\* app.post('/api/events'), with the runs it overtakes recorded
ManualAddSeen(body) ==
    /\ Quiescent
    /\ Len(eventsFile) < MaxStore
    /\ maxId(eventsFile) < MaxIdVal
    /\ eventsFile' = postEvent(readEvents, body)
    /\ run' = touch(eventsFile')
    /\ UNCHANGED <<hasApiKey, scanInProgress, metaFile, deletedIds>>

\* app.put('/api/events/:id'), with the runs it overtakes recorded
ManualUpdateSeen(id, body) ==
    /\ Quiescent
    /\ eventsFile' = putEvent(readEvents, id, body)
    /\ run' = touch(eventsFile')
    /\ UNCHANGED <<hasApiKey, scanInProgress, metaFile, deletedIds>>

\* app.delete('/api/events/:id'), with the runs it overtakes recorded
ManualDeleteSeen(id) ==
    /\ Quiescent
    /\ eventsFile' = deleteEvent(readEvents, id)
    /\ run' = touch(eventsFile')
    /\ UNCHANGED <<hasApiKey, scanInProgress, metaFile, deletedIds>>

\* manual changes and the scans of the cron job
NextSeen ==
    \/ \E body \in PostBodies : ManualAddSeen(body)
    \/ \E id \in 1..MaxIdVal, body \in PutBodies : ManualUpdateSeen(id, body)
    \/ \E id \in 1..MaxIdVal : ManualDeleteSeen(id)
    \/ CronScan

SpecSeen == Init /\ [][NextSeen]_vars

\* ---- the merge as a function of the store and the extraction response ----
\* an invocation of the cron job that awaits its extraction call, the
\* response under way being the array cands
Awaiting(cands) ==
    [IdleRun EXCEPT !.pc = "extract", !.qi = NumQueries,
                    !.calls = NumQueries + 1, !.cands = cands]

\* a stored event with the fields a scan gives by default
Stored(id, n) ==
    [id |-> id, name |-> Str(n), date |-> Str(<<"1">>),
     type |-> Str(<<"meetup">>), mode |-> Str(<<"In-Person">>),
     reg |-> Str(<<"open">>)]

\* the values of ev.type, ev.mode and ev.reg tried: absent, no string, out
\* of the enumeration (also by case), and every value of the enumeration
TypeInputs ==
    {Undef, Num, Str(<<"party">>), Str(<<"Meetup">>)} \cup
    {Str(<<x>>) : x \in VALID_TYPES}

ModeInputs == {Undef, Str(<<"online">>)} \cup {Str(<<x>>) : x \in VALID_MODES}

RegInputs == {Undef, Str(<<"paid">>)} \cup {Str(<<x>>) : x \in VALID_REGS}

CoerceCandidates ==
    {[kind |-> "obj", name |-> Str(<<"b">>), date |-> Str(<<"1">>),
      type |-> t, mode |-> m, reg |-> g] :
        t \in TypeInputs, m \in ModeInputs, g \in RegInputs}

\* the store that holds events of these names, with the ids 1, 2, ...
StoreOf(names) == [i \in DOMAIN names |-> Stored(i, names[i])]

\* the stores drawn leave room for one more event
CoerceStores == {StoreOf(names) : names \in SeqsUpTo(Names, MaxStore - 1)}

\* a run awaits its extraction call; the store and the one candidate of the
\* response are drawn
InitCoerce ==
    /\ hasApiKey = TRUE
    /\ scanInProgress = TRUE
    /\ eventsFile \in CoerceStores
    /\ metaFile = [totalScans |-> 0, lastAdded |-> 0 - 1]
    /\ \E c \in CoerceCandidates :
            run = [r \in Runs |-> IF r = 1 THEN Awaiting(<<c>>) ELSE IdleRun]
    /\ deletedIds = {}

\* the response under way arrives, and the invocation is over
NextPending ==
    \E r \in Runs :
        \/ /\ run[r].pc = "extract"
           /\ ExtractSettle(r, [kind |-> "array", cands |-> run[r].cands], {})
        \/ Finish(r)
        \/ Crash(r)

\* the same steps; no candidate drawn raises an exception
NextCoerce ==
    \E r \in Runs :
        \/ /\ run[r].pc = "extract"
           /\ ExtractSettle(r, [kind |-> "array", cands |-> run[r].cands], {})
        \/ Finish(r)

SpecCoerce == InitCoerce /\ [][NextCoerce]_vars

\* a run awaits its extraction call; the store and the array of candidates
\* of the response are drawn
InitMerge ==
    /\ hasApiKey = TRUE
    /\ scanInProgress = TRUE
    /\ eventsFile \in {StoreOf(names) : names \in SeqsUpTo(Names, MaxStore)}
    /\ metaFile = [totalScans |-> 0, lastAdded |-> 0 - 1]
    /\ \E cands \in SeqsUpTo(Candidates, MaxCands) :
            run = [r \in Runs |-> IF r = 1 THEN Awaiting(cands) ELSE IdleRun]
    /\ deletedIds = {}

SpecMerge == InitMerge /\ [][NextPending]_vars

\* ---- GET /api/scan ----
\* res.write('data: done\n\n')
DoneLine == [type |-> "none", msg |-> "done"]

BusyLine == [type |-> "err", msg |-> "Scan already in progress"]

\* res.write(`data: err:${err.message}\n\n`)
CatchLine == [type |-> "err", msg |-> "exception"]

\* res.write('data: done\n\n'); res.end()
endStream(rr) ==
    [rr EXCEPT !.stream = Append(@, DoneLine), !.res = "ended", !.pc = "ended"]

\* the route without its own test of the flag
routeBusyNever(flag) == FALSE

\* if (scanInProgress) of the route handler
routeBusy(flag) == flag

\* lines 272-286: the handler, up to the first await of performScan(send);
\* send writes to the response and does not throw
getScan(f) ==
    LET f0 == [f EXCEPT !.r.emitter = TRUE, !.r.res = "open"]
    IN  IF routeBusy(f.scanInProgress)
        THEN LET f1 == emit(f0, BusyLine.type, BusyLine.msg)
             IN  [f1 EXCEPT !.r = endStream([@ EXCEPT !.outcome = "rejected"])]
        ELSE settle(startScan(f0))

GetScan(r) ==
    /\ Quiescent
    /\ run[r].pc = "idle"
    /\ \A q \in Runs : q < r => run[q].pc # "idle"
    /\ \E f \in {getScan(Frame(r, {}))} : Commit(r, f)
    /\ UNCHANGED hasApiKey

\* a handler whose .catch ends the response without the sentinel
routeSettledBareCatch(rr) ==
    IF rr.outcome = "threw"
    THEN [rr EXCEPT !.stream = Append(@, CatchLine), !.res = "ended",
                    !.pc = "ended"]
    ELSE endStream(rr)

\* lines 286-293: the .then and the .catch of performScan(send)
routeSettled(rr) ==
    IF rr.outcome = "threw"
    THEN endStream([rr EXCEPT !.stream = Append(@, CatchLine)])
    ELSE endStream(rr)

RouteSettled(r) ==
    /\ run[r].pc = "settled"
    /\ run[r].res = "open"
    /\ run' = [run EXCEPT ![r] = routeSettled(run[r])]
    /\ UNCHANGED <<hasApiKey, scanInProgress, eventsFile, metaFile, deletedIds>>

\* the response has ended: the request is over
Close(r) ==
    /\ run[r].pc = "ended"
    /\ run' = [run EXCEPT ![r] = IdleRun]
    /\ UNCHANGED <<hasApiKey, scanInProgress, eventsFile, metaFile, deletedIds>>

\* the steps of the requests GET /api/scan that are the handler's own
RouteScan ==
    \E r \in Runs :
        \/ GetScan(r)
        \/ RouteSettled(r)
        \/ Close(r)

\* The extraction responses tried with the route: one of each outcome of
\* the pipeline (failure, no array, no candidate, a candidate that raises an
\* exception, a candidate that is merged).
RouteExtracts ==
    {resp \in ExtractResponses :
        resp.kind = "array" /\ resp.cands # <<>> =>
            /\ Len(resp.cands) = 1
            /\ \/ resp.cands[1].kind = "null"
               \/ resp.cands[1].kind = "obj" /\ resp.cands[1].name = Str(<<"b">>)}

\* the steps of the invocations made by the cron job, and the steps after the
\* first await of those made by the route
ServerScan ==
    \E r \in Runs :
        \/ /\ run[r].pc = "idle"
           /\ StartScan(r, FALSE, {})
        \/ /\ run[r].pc = "search"
           /\ \E resp \in SearchResponses : SearchSettle(r, resp, {})
        \/ /\ run[r].pc = "extract"
           /\ \E resp \in RouteExtracts : ExtractSettle(r, resp, {})
        \/ Finish(r)
        \/ Crash(r)

\* the scans of the server as it runs: streamed requests and the cron job
NextRoute ==
    \/ RouteScan
    \/ ServerScan

SpecRoute == Init /\ [][NextRoute]_vars

\* what an invocation that is under way does next
RunStep(r) ==
    \/ \E resp \in SearchResponses : SearchSettle(r, resp, {})
    \/ \E resp \in RouteExtracts : ExtractSettle(r, resp, {})
    \/ RouteSettled(r)
    \/ Finish(r)
    \/ Crash(r)
    \/ Close(r)

\* The external calls settle and the event loop runs every callback that is
\* ready: a step of an invocation that is possible again and again is taken.
SpecRouteFair == SpecRoute /\ \A r \in Runs : SF_vars(RunStep(r))

\* ---- properties ----
Active(r) == run[r].pc \in {"search", "extract"}

Settled(r) == run[r].pc = "settled"

\* this step is the last stretch of a run: the extraction response arrived
IsMergeStep == \E r \in Runs : run[r].pc = "extract" /\ run'[r].pc = "settled"

\* this step is a manual delete that removed something
IsDeleteStep == run' = run /\ Len(eventsFile') < Len(eventsFile)

\* the dedup key of the data model: (lower-cased trimmed name, date)
dedupKey(e) == <<trim(toLowerCase(e.name.s)), e.date>>

KeysUnique(events) ==
    \A i, j \in DOMAIN events : i # j => dedupKey(events[i]) # dedupKey(events[j])

IsPrefix(a, b) == Len(a) <= Len(b) /\ SubSeq(b, 1, Len(a)) = a

\* C1 as stated: in every reachable state no two events of the store have
\* the same dedup key.
C1_KeysUniqueAlways == KeysUnique(eventsFile)

\* C1, amended: a scan's merge and a manual delete keep the keys of the store
\* unique: from a store without two events of one key such a step leads to a
\* store without two events of one key.
C1_ScanAndDeleteKeepKeysUnique ==
    [][(IsMergeStep \/ IsDeleteStep) /\ KeysUnique(eventsFile)
            => KeysUnique(eventsFile')]_vars

\* a run has just merged one record into a store that held one
C1_Witness ==
    /\ \E r \in Runs : Settled(r) /\ run[r].outcome = "done"
    /\ metaFile.lastAdded = 1
    /\ Len(eventsFile) = 2
    /\ KeysUnique(eventsFile)

\* C2 as stated: whenever no accepted run is under way, the flag is false.
C2_FlagReleasedOnEveryExit ==
    (\A r \in Runs : ~Active(r)) => scanInProgress = FALSE

\* C3: at most one run is active, and an invocation that was turned away has
\* issued no external call and written no file.
C3_GuardExclusive ==
    /\ Cardinality({r \in Runs : Active(r)}) <= 1
    /\ \A r \in Runs :
        Settled(r) /\ (\E q \in Runs : q # r /\ Active(q))
            => /\ run[r].outcome = "rejected"
               /\ run[r].calls = 0
               /\ run[r].writes = 0

\* an invocation was turned away while a run awaits its extraction call
C3_Witness ==
    \E r, q \in Runs :
        /\ run[r].pc = "extract" /\ run[r].calls = NumQueries + 1
        /\ Settled(q) /\ run[q].outcome = "rejected"

\* C4 as stated: the ids of the events in the store are pairwise distinct.
C4_IdsDistinct ==
    \A i, j \in DOMAIN eventsFile : i # j => eventsFile[i].id # eventsFile[j].id

\* this step stores events whose ids the server assigned: a scan's merge, or
\* a manual add whose body names no id
ServerAssignsStep ==
    IsMergeStep \/ \E body \in PostBodies : ~body.hasId /\ ManualAdd(body)

\* the ids of the events this step appended
NewIds == {eventsFile'[k].id : k \in Len(eventsFile) + 1 .. Len(eventsFile')}

\* C5 as stated, for the ids the server assigns: an event created after a
\* deletion is never given the id of a deleted event.
C5_DeletedIdNeverAssignedAgain ==
    [][ServerAssignsStep => NewIds \cap deletedIds = {}]_vars

\* C5, amended: the server assigns the id of a deleted event again only when
\* every event left in the store has a smaller id.
C5_DeletedIdAssignedOnlyAboveTheStore ==
    [][ServerAssignsStep =>
            \A n \in NewIds \cap deletedIds :
                \A i \in DOMAIN eventsFile : eventsFile[i].id < n]_vars

\* Events 1 and 3 were deleted while event 2 stayed.  An event was then
\* inserted into the store that held event 2 alone: it got the deleted id 3,
\* above the surviving id, and not the deleted id 1 below it.
C5_Witness ==
    /\ deletedIds = {1, 3}
    /\ Len(eventsFile) = 2
    /\ eventsFile[1].id = 2
    /\ eventsFile[2].id = 3

\* C6 as stated: the k-th record an insertion appends has the id
\* (largest id in the store before the insertion) + k.
C6_NewIdIsMaxPlusOne ==
    [][Len(eventsFile') > Len(eventsFile) =>
            \A k \in 1 .. Len(eventsFile') - Len(eventsFile) :
                eventsFile'[Len(eventsFile) + k].id = maxId(eventsFile) + k]_vars

\* C7: the store a scan leaves has the store it found as a prefix, and no
\* record behind that prefix has the key of an event of the store it found
\* (so candidates that all collide leave the store as it was); when the store
\* is left as it was, the metadata written counts one more scan and no added
\* event.
C7_MergeAppendOnly ==
    [][\A r \in Runs : run[r].pc = "extract" /\ run'[r].pc = "settled" =>
        /\ IsPrefix(eventsFile, eventsFile')
        /\ \A k \in Len(eventsFile) + 1 .. Len(eventsFile') :
            \A j \in DOMAIN eventsFile :
                dedupKey(eventsFile[j]) # dedupKey(eventsFile'[k])
        /\ eventsFile' = eventsFile /\ run'[r].writes = 2 =>
            metaFile' = [totalScans |-> metaFile.totalScans + 1,
                         lastAdded |-> 0]]_vars

\* a run has completed on an array of candidates and added nothing to a store
\* of two events
C7_Witness ==
    /\ \E r \in Runs :
        /\ Settled(r) /\ run[r].outcome = "done"
        /\ run[r].parsed = "array" /\ run[r].writes = 2
    /\ metaFile.lastAdded = 0
    /\ Len(eventsFile) = 2

\* C8 as stated: a run whose extraction failed has ended with the flag
\* released, an error message in the sink and no file written.
C8_ExtractionFailureReleasesGuard ==
    \A r \in Runs :
        Settled(r) /\ run[r].parsed = "fail" =>
            /\ scanInProgress = FALSE
            /\ run[r].writes = 0
            /\ run[r].emitter => run[r].sink.type = "err"

\* C9 as stated: no run is ended by an exception of its progress sink.
C9_SinkFailureDoesNotAbort ==
    \A r \in Runs : ~(run[r].outcome = "threw" /\ run[r].thrownBy = "emitter")

\* C10 as stated: a run whose extraction response parsed to an array, and
\* whose sink did not throw, has persisted the store and the metadata.
C10_MergeNeverRaises ==
    \A r \in Runs :
        Settled(r) /\ run[r].parsed = "array" /\ run[r].thrownBy # "emitter"
            => run[r].outcome = "done" /\ run[r].writes = 2

\* C11: a streamed request made while a scan is in progress ends at once:
\* its stream holds the message that a scan is already in progress and then
\* the sentinel, no external call was issued, no file written, and the flag,
\* the store and the metadata are as they were.
C11_BusyRequestIsToldAndDoesNothing ==
    [][\A r \in Runs :
        run[r].pc = "idle" /\ run'[r].res # "none" /\ scanInProgress =>
            /\ run'[r].res = "ended"
            /\ run'[r].outcome = "rejected"
            /\ run'[r].stream = <<BusyLine, DoneLine>>
            /\ run'[r].calls = 0
            /\ run'[r].writes = 0
            /\ UNCHANGED <<scanInProgress, eventsFile, metaFile>>]_vars

\* a streamed request was turned away while a run awaits a search call
C11_Witness ==
    \E r, q \in Runs :
        /\ run[r].res = "ended" /\ run[r].outcome = "rejected"
        /\ run[r].stream[1] = BusyLine
        /\ run[q].pc = "search" /\ run[q].calls > 0

\* C12: a response that has ended holds the sentinel once, as its last line;
\* the sentinel is written when the pipeline has settled, or at once to a
\* request turned away; nothing is written after it; and every open response
\* is ended in the end.
C12_StreamEndsWithDone ==
    /\ [](\A r \in Runs : run[r].res = "ended" =>
            /\ run[r].stream # <<>>
            /\ \A i \in DOMAIN run[r].stream :
                    run[r].stream[i] = DoneLine <=> i = Len(run[r].stream))
    /\ [][\A r \in Runs :
            /\ run[r].res = "ended" => run'[r] \in {run[r], IdleRun}
            /\ run[r].res # "ended" /\ run'[r].res = "ended" =>
                    \/ run[r].pc = "settled"
                    \/ run[r].pc = "idle" /\ run'[r].outcome = "rejected"]_vars
    /\ \A r \in Runs : (run[r].res = "open") ~> (run[r].res = "ended")

\* the pipeline of a streamed request raised an exception, and its response
\* ended with the error line and the sentinel
C12_Witness ==
    \E r \in Runs :
        /\ run[r].res = "ended" /\ run[r].outcome = "threw"
        /\ run[r].calls = NumQueries + 1
        /\ run[r].stream[Len(run[r].stream) - 1] = CatchLine
        /\ run[r].stream[Len(run[r].stream)] = DoneLine

\* C13 as stated: whatever a search call settles with, the run goes on: the
\* next step of a run that awaits the search call of query k issues one more
\* call, the search call of query k+1 or, after the last query, the
\* extraction call.
C13_SearchFailureNotFatal ==
    [][\A r \in Runs :
        run[r].pc = "search" /\ run'[r] # run[r] =>
            /\ run'[r].calls = run[r].calls + 1
            /\ \/ /\ run[r].qi < NumQueries
                  /\ run'[r].pc = "search"
                  /\ run'[r].qi = run[r].qi + 1
               \/ /\ run[r].qi = NumQueries
                  /\ run'[r].pc = "extract"]_vars

\* C14 as stated: when the extraction response parses to something that is
\* no array the run completes: the store is as it was, the metadata counts
\* one more scan and no added event, and the flag is released; when the
\* response does not parse the metadata is as it was.
C14_NonArrayCompletesEmpty ==
    [][\A r \in Runs : run[r].pc = "extract" /\ run'[r].pc = "settled" =>
        /\ run'[r].parsed = "nonarray" =>
            /\ run'[r].outcome = "done"
            /\ eventsFile' = eventsFile
            /\ metaFile' = [totalScans |-> metaFile.totalScans + 1,
                            lastAdded |-> 0]
            /\ scanInProgress' = FALSE
        /\ run'[r].parsed = "fail" => metaFile' = metaFile]_vars

\* C15: without an API key the flag is never set, no invocation issues an
\* external call or writes a file, the metadata is never written, and an
\* invocation that has returned was given the configuration error in its
\* sink when it has one.
C15_NoKeyNoWork ==
    ~hasApiKey =>
        /\ scanInProgress = FALSE
        /\ metaFile = [totalScans |-> 0, lastAdded |-> 0 - 1]
        /\ \A r \in Runs :
            /\ run[r].calls = 0
            /\ run[r].writes = 0
            /\ Settled(r) =>
                /\ run[r].outcome \in {"nokey", "threw"}
                /\ run[r].outcome = "nokey" /\ run[r].emitter =>
                        run[r].sink = [type |-> "error",
                                       msg |-> "ANTHROPIC_API_KEY is not set"]

\* an invocation with a sink has returned for want of a key, with the store
\* holding an event
C15_Witness ==
    /\ ~hasApiKey
    /\ eventsFile # <<>>
    /\ \E r \in Runs :
        /\ Settled(r) /\ run[r].outcome = "nokey" /\ run[r].emitter
        /\ run[r].sink.type = "error"

\* the value the data model allows: v when the enumeration has it
Allowed(valid, v, default) ==
    IF \E x \in valid : v = Str(<<x>>) THEN v ELSE Str(<<default>>)

\* C16: a candidate with a name and a date whose key is not in the store is
\* appended whatever its type, mode and registration status are, and the
\* record appended has each of them when the enumeration has it, and
\* 'meetup', 'In-Person', 'open' otherwise.
C16_CoercionTotal ==
    [][\A r \in Runs :
        /\ run[r].pc = "extract" /\ run'[r].pc = "settled"
        /\ Len(run[r].cands) = 1
        /\ \A i \in DOMAIN eventsFile :
                dedupKey(eventsFile[i]) # dedupKey(run[r].cands[1])
        => /\ eventsFile' # eventsFile
           /\ eventsFile' =
                Append(eventsFile,
                    [id |-> maxId(eventsFile) + 1,
                     name |-> run[r].cands[1].name,
                     date |-> run[r].cands[1].date,
                     type |-> Allowed(VALID_TYPES, run[r].cands[1].type, "meetup"),
                     mode |-> Allowed(VALID_MODES, run[r].cands[1].mode, "In-Person"),
                     reg |-> Allowed(VALID_REGS, run[r].cands[1].reg, "open")])]_vars

\* a candidate with a type out of the enumeration, no mode and the status
\* 'limited' was merged behind a stored event
C16_Witness ==
    \E r \in Runs :
        /\ Settled(r) /\ run[r].outcome = "done"
        /\ Len(run[r].cands) = 1
        /\ run[r].cands[1].type = Str(<<"party">>)
        /\ run[r].cands[1].mode = Undef
        /\ run[r].cands[1].reg = Str(<<"limited">>)
        /\ Len(eventsFile) = 2
        /\ eventsFile[2].type = Str(<<"meetup">>)
        /\ eventsFile[2].mode = Str(<<"In-Person">>)
        /\ eventsFile[2].reg = Str(<<"limited">>)

\* C17: a step of a run leaves the store as it is, except the last stretch
\* of the run, which reads and writes the store in one step: the store it
\* writes has the store of that moment, with every manual change made until
\* then, as a prefix; and a manual change is never a step of a run.
C17_MergeKeepsManualChanges ==
    [][/\ \A r \in Runs :
            run'[r].pc # run[r].pc \/ run'[r].calls # run[r].calls =>
                IF run[r].pc = "extract"
                THEN IsPrefix(eventsFile, eventsFile')
                ELSE eventsFile' = eventsFile
       /\ eventsFile' # eventsFile /\ metaFile' = metaFile =>
            \A r \in Runs :
                run'[r].pc = run[r].pc /\ run'[r].calls = run[r].calls]_vars

\* an event was stored by hand while a run awaited an external call, and the
\* run then merged a candidate behind it
C17_Witness ==
    \E r \in Runs :
        /\ Settled(r) /\ run[r].outcome = "done" /\ run[r].touched
        /\ metaFile.lastAdded = 1
        /\ Len(eventsFile) = 2

\* a candidate the merge looks at: an object with a name and a date
Valid(c) == c.kind = "obj" /\ truthy(c.name) /\ truthy(c.date)

\* the positions of the candidates to append: those with a key that no event
\* of the store and no earlier candidate has
Winners(cands, events) ==
    {i \in DOMAIN cands :
        /\ Valid(cands[i])
        /\ \A k \in DOMAIN events : dedupKey(events[k]) # dedupKey(cands[i])
        /\ \A j \in 1 .. i - 1 :
                Valid(cands[j]) => dedupKey(cands[j]) # dedupKey(cands[i])}

\* the k-th smallest element of a set of numbers
Nth(S, k) == CHOOSE i \in S : Cardinality({j \in S : j <= i}) = k

\* C18: the store a completed merge writes is the store it read followed by
\* one record for each candidate whose key no event of that store and no
\* earlier candidate has, in the order of the candidates (of two candidates
\* with one key the first is appended, the second is not); a store with
\* unique keys is left with unique keys.
C18_MergeAddsEachNewKeyOnce ==
    [][\A r \in Runs :
        /\ run[r].pc = "extract" /\ run'[r].pc = "settled"
        /\ run'[r].outcome = "done"
        /\ run'[r].parsed = "array"
        => LET cands == run[r].cands
               W == Winners(cands, eventsFile)
               n == Len(eventsFile)
           IN  /\ Len(eventsFile') = n + Cardinality(W)
               /\ IsPrefix(eventsFile, eventsFile')
               /\ \A k \in 1 .. Cardinality(W) :
                    /\ eventsFile'[n + k].name = cands[Nth(W, k)].name
                    /\ eventsFile'[n + k].date = cands[Nth(W, k)].date
               /\ metaFile'.lastAdded = Cardinality(W)
               /\ KeysUnique(eventsFile) => KeysUnique(eventsFile')]_vars

\* of two candidates with one key the first was appended, behind a stored
\* event, and the second was not
C18_Witness ==
    \E r \in Runs :
        /\ Settled(r) /\ run[r].outcome = "done"
        /\ Len(run[r].cands) = 2
        /\ run[r].cands[1].name = Str(<<"a", " ">>)
        /\ run[r].cands[2].name = Str(<<"A">>)
        /\ Len(eventsFile) = 2
        /\ eventsFile[1].name = Str(<<"b">>)
        /\ eventsFile[2].name = Str(<<"a", " ">>)
        /\ metaFile.lastAdded = 1

\* this step takes run r through the merge stage: its extraction response
\* parsed, and its sink did not stop it before the store was read
ReachesMerge(r) ==
    /\ run[r].pc = "extract" /\ run'[r].pc = "settled"
    /\ run'[r].parsed \in {"array", "nonarray"}
    /\ run'[r].thrownBy = "emitter" => run'[r].writes = 2

\* C19 as stated: a step that takes a run through the merge stage counts one
\* more scan and sets lastAdded to the number of events it appended, and no
\* other step changes the metadata.
C19_MetadataCountsMergeStages ==
    [][IF \E r \in Runs : ReachesMerge(r)
       THEN metaFile' = [totalScans |-> metaFile.totalScans + 1,
                         lastAdded |-> Len(eventsFile') - Len(eventsFile)]
       ELSE metaFile' = metaFile]_vars

\* C20 as stated: at most one run has a call outstanding, and a run has one
\* call outstanding at a time: while it awaits the search call of query k it
\* has issued k calls, while it awaits the extraction call it has issued the
\* five search calls and that call, and it never issues more; each step of a
\* run issues at most one call, the search call of the next query or, after
\* the fifth, the extraction call; a run has an extraction response, and has
\* written the store, only after all six calls, and has written only when
\* the response parsed; and an accepted run (the key is set and the run was
\* not turned away) that is over has issued all six calls: exactly five
\* search calls and exactly one extraction call.
C20_ExactlySixCallsInOrder ==
    /\ [](/\ Cardinality({r \in Runs : Active(r)}) <= 1
          /\ \A r \in Runs :
                /\ run[r].calls <= NumQueries + 1
                /\ run[r].pc = "search" =>
                        run[r].qi \in 1..NumQueries /\ run[r].calls = run[r].qi
                /\ run[r].pc = "extract" => run[r].calls = NumQueries + 1
                /\ run[r].parsed # "none" =>
                        ~Active(r) /\ run[r].calls = NumQueries + 1
                /\ run[r].writes > 0 =>
                        run[r].parsed \in {"array", "nonarray"}
                /\ (/\ hasApiKey /\ Settled(r)
                    /\ run[r].outcome \notin {"rejected", "nokey"}) =>
                        run[r].calls = NumQueries + 1)
    /\ [][\A r \in Runs :
            run'[r].calls # run[r].calls /\ run'[r].pc # "idle" =>
                /\ run'[r].calls = run[r].calls + 1
                /\ run[r].pc \in {"idle", "search"}
                /\ IF run[r].calls < NumQueries
                   THEN run'[r].pc = "search" /\ run'[r].qi = run[r].calls + 1
                   ELSE run'[r].pc = "extract"]_vars

====
